---------------------------- MODULE Spec2Model ----------------------------
(***************************************************************************)
(* Model of jaw::cli (src/src/lib.rs): an Input wraps a Reader and offers  *)
(* read, demand and demand_until.  The Reader is either the scripted mock  *)
(* of the tests (impl Reader for Mock<String>) or the standard input       *)
(* adapter (impl Reader for Stdin).                                        *)
(***************************************************************************)
EXTENDS Integers, Sequences, FiniteSets, TLC

\* ------------------------------------------------------------------ bounds
MaxScript == 3      \* longest pre-loaded script / pending stream
MaxAttempts == 3    \* largest explicit attempt bound a caller passes
MaxCalls == 2       \* calls made on one Input

\* ------------------------------------------------------- program constants
U8 == 256           \* attempts is a u8

\* ------------------------------------------------------------ input sets
Lines == {"1", "100"}
IoErrors == {"broken pipe"}
Reasons == {"please type 100", "invalid digit found in string"}
\* what a reader can hand to the validator: a line, or the empty buffer
LineDomain == Lines \cup {""}

None == [some |-> FALSE]
Some(n) == [some |-> TRUE, val |-> n]
AttemptArgs == {None} \cup {Some(n) : n \in 0..MaxAttempts}

Line(l) == [tag |-> "line", text |-> l]
Fail(e) == [tag |-> "err", desc |-> e]
LineItems == {Line(l) : l \in Lines}
ErrItems == {Fail(e) : e \in IoErrors}

SeqsUpTo(S, n) == UNION {[1..k -> S] : k \in 0..n}

\* validator results: Ok(_) or Err(reason)
Accept == [ok |-> TRUE]
Reject(r) == [ok |-> FALSE, err |-> r]
Verdicts == {Accept} \cup {Reject(r) : r \in Reasons}
Validators == [LineDomain -> Verdicts]

\* ------------------------------------------------------------ result values
Ok(s) == [tag |-> "Ok", val |-> s]
Err(k, m) == [tag |-> "Err", kind |-> k, msg |-> m]
NoResult == [tag |-> "none"]
NoPrev == [op |-> "none"]

VARIABLES
    medium,          \* which Reader the Input owns: "mock" or "stdin"
    queue,           \* the reader's pending items (mock queue / input stream)
    calls,           \* number of read_string invocations on the reader
    claim,           \* the validator passed to demand / demand_until
    pc,              \* position of the caller inside the current operation
    op,              \* operation in progress or last returned
    attemptsArg,     \* the Option<u8> argument of demand_until
    attempts,        \* local: resolved attempt bound
    attempt,         \* local: next value of the range 0..attempts
    last_error_msg,  \* local of demand_until
    input_str,       \* local: the line just read
    result,          \* value returned by the last completed operation
    ncalls,          \* operations started on this Input
    queue0,          \* queue when the current operation started
    reads,           \* read_string invocations made by the current operation
    vcalls,          \* validator invocations made by the current operation
    script,          \* what the caller pre-loads into a reader it constructs
    prev             \* first operation made on the previously constructed Input

vars == <<medium, queue, calls, claim, pc, op, attemptsArg, attempts, attempt,
          last_error_msg, input_str, result, ncalls, queue0, reads, vcalls,
          script, prev>>

\* ------------------------------------------------------------ the readers

\* Mock<String>::mock_once: pops the next queued value; an empty queue is a
\* programming error and panics.
mock_once(q) ==
    IF q = <<>>
    THEN [panic |-> TRUE, val |-> "", rest |-> q]
    ELSE [panic |-> FALSE, val |-> Head(q).text, rest |-> Tail(q)]

\* impl Reader for Mock<String>: Ok(self.mock_once())
mock_read_string(q) ==
    LET m == mock_once(q)
    IN [panic |-> m.panic, res |-> Ok(m.val), rest |-> m.rest]

\* mutant: end of stream reported as an error
read_line_eof_err(q, buf) ==
    IF q = <<>>
    THEN [err |-> TRUE, e |-> "unexpected end of file", buf |-> buf, rest |-> q]
    ELSE IF Head(q).tag = "err"
         THEN [err |-> TRUE, e |-> Head(q).desc, buf |-> buf, rest |-> Tail(q)]
         ELSE [err |-> FALSE, n |-> Len(Head(q).text),
               buf |-> buf \o Head(q).text, rest |-> Tail(q)]

\* std::io::Stdin::read_line(&mut buf): appends the next line to buf and
\* returns Ok(n) with n the bytes read, Ok(0) at end of stream with buf
\* untouched, or Err(e).
read_line(q, buf) ==
    IF q = <<>> THEN [err |-> FALSE, n |-> 0, buf |-> buf, rest |-> q]
    ELSE IF Head(q).tag = "err"
         THEN [err |-> TRUE, e |-> Head(q).desc, buf |-> buf, rest |-> Tail(q)]
         ELSE [err |-> FALSE, n |-> Len(Head(q).text),
               buf |-> buf \o Head(q).text, rest |-> Tail(q)]

\* impl Reader for Stdin
stdin_read_string(q) ==
    LET buf == ""
        r == read_line(q, buf)
    IN IF r.err
       THEN [panic |-> FALSE, res |-> [tag |-> "IoErr", desc |-> r.e], rest |-> r.rest]
       ELSE [panic |-> FALSE, res |-> Ok(r.buf), rest |-> r.rest]

\* Reader::read_string, dispatched on the reader the Input owns
read_string(m, q) ==
    IF m = "mock" THEN mock_read_string(q) ELSE stdin_read_string(q)

\* mutants of the conversion: wrong kind, decorated message
FromIoError_exhausted(desc) == Err("AttemptsExceedError", desc)
FromIoError_prefixed(desc) == Err("IoError", "wrong input. " \o desc)

\* impl From<io::Error> for InputReadError
FromIoError(desc) == Err("IoError", desc)

\* ------------------------------------------------------------ Init

Scripts(m) ==
    IF m = "mock" THEN SeqsUpTo(LineItems, MaxScript)
    ELSE SeqsUpTo(LineItems \cup ErrItems, MaxScript)

\* Input::new(reader) / Input::default(): the Input owns the reader
Init ==
    /\ medium \in {"mock", "stdin"}
    /\ script \in Scripts(medium)
    /\ queue = script
    /\ calls = 0
    /\ claim \in Validators
    /\ pc = "idle"
    /\ op = "none"
    /\ attemptsArg = None
    /\ attempts = 0
    /\ attempt = 0
    /\ last_error_msg = ""
    /\ input_str = ""
    /\ result = NoResult
    /\ ncalls = 0
    /\ queue0 = queue
    /\ reads = 0
    /\ vcalls = 0
    /\ prev = NoPrev

\* ------------------------------------------------------------ operations

\* mutant: the line is returned but left in the reader
read_no_consume(m, q) ==
    LET r == read_string(m, q)
    IN [panic |-> r.panic,
        res |-> IF r.res.tag = "IoErr" THEN FromIoError(r.res.desc) ELSE r.res,
        rest |-> q]

\* Input::read: let inp = self.reader.read_string()?; Ok(inp)
read(m, q) ==
    LET r == read_string(m, q)
    IN [panic |-> r.panic,
        res |-> IF r.res.tag = "IoErr" THEN FromIoError(r.res.desc) ELSE r.res,
        rest |-> r.rest]

\* mutant: another default
ResolveAttempts_two(a) == IF a.some THEN a.val ELSE 2

\* let attempts = if let Some(attempts) = attempts { attempts } else { 3u8 }
ResolveAttempts(a) == IF a.some THEN a.val ELSE 3

\* mutants of the range test: one short, one over
RangeHasNext_short(start, end) == start < end - 1
RangeHasNext_over(start, end) == start <= end

\* for attempt in 0..attempts: the range has a next value
RangeHasNext(start, end) == start < end

\* mutant: the subtraction done in seven bits
Sub8_narrow(a, b) == (a - b + 128) % 128

\* u8 subtraction as the release build evaluates it
Sub8(a, b) == (a - b + U8) % U8

\* the same subtraction overflows: the debug build panics there, the release
\* build wraps
SubOverflows(a, b) == a < b

\* the range's step to the next u8 value
Add8(a, b) == (a + b) % U8

\* mutant: an accepted line is taken for a rejected one
is_ok_never(res) == FALSE

\* claim_res.is_ok()
is_ok(res) == res.ok

\* claim_res.err().unwrap(): the reason of an Err, a panic on an Ok
err_unwrap(res) ==
    IF res.ok THEN [panic |-> TRUE, val |-> ""]
    ELSE [panic |-> FALSE, val |-> res.err]

\* mutants: the reason of the first attempt is the one kept; the test is one
\* off and no reason is kept
IsLastAttempt_first(n, bound) == n = 0
IsLastAttempt_never(n, bound) == n = bound

\* else if attempt == attempts - 1
IsLastAttempt(n, bound) == n = Sub8(bound, 1)

\* mutant: the prefix is dropped
WrongInputMsg_bare(err) == err

\* mutant: demand reports a rejection under the kind of demand_until
RejectionError_exceed(err) == Err("AttemptsExceedError", "wrong input. " \o err)

\* format!("wrong input. {}", err)
WrongInputMsg(err) == "wrong input. " \o err

\* demand: InputReadError { msg: format!(..), kind: InputRequirementError }
RejectionError(err) == Err("InputRequirementError", WrongInputMsg(err))

\* format!("attempts to read input were failed. {}", last_error_msg)
AttemptsMsg(last) == "attempts to read input were failed. " \o last

\* a caller starts an operation on the Input
Begin(o, a) ==
    /\ pc = "idle"
    /\ ncalls < (IF prev = NoPrev THEN MaxCalls ELSE 1)
    /\ ncalls' = ncalls + 1
    /\ op' = o
    /\ attemptsArg' = a
    /\ queue0' = queue

\* the operation returns res to its caller; its locals are gone
Return(res) ==
    /\ result' = res
    /\ pc' = "idle"
    /\ attempts' = 0
    /\ attempt' = 0
    /\ last_error_msg' = ""
    /\ input_str' = ""

\* the reader panicked: the operation never returns
Panic ==
    /\ pc' = "panicked"
    /\ UNCHANGED <<result, attempts, attempt, last_error_msg, input_str>>

\* pub fn read(&self)
ReadCall ==
    /\ Begin("read", None)
    /\ LET r == read(medium, queue)
       IN /\ queue' = r.rest
          /\ calls' = calls + 1
          /\ reads' = 1
          /\ IF r.panic THEN Panic ELSE Return(r.res)
    /\ vcalls' = 0
    /\ UNCHANGED <<medium, claim, script, prev>>

\* demand: let inp = self.reader.read_string()?;
demand_read ==
    /\ Begin("demand", None)
    /\ LET r == read_string(medium, queue)
       IN /\ queue' = r.rest
          /\ calls' = calls + 1
          /\ reads' = 1
          /\ IF r.panic THEN Panic
             ELSE IF r.res.tag = "IoErr"
                  THEN Return(FromIoError(r.res.desc))
                  ELSE /\ input_str' = r.res.val
                       /\ pc' = "demand_claim"
                       /\ UNCHANGED <<result, attempts, attempt, last_error_msg>>
    /\ vcalls' = 0
    /\ UNCHANGED <<medium, claim, script, prev>>

\* demand: match claim(&inp) { Ok(_) => Ok(inp), Err(err) => Err(..) }
demand_claim ==
    /\ pc = "demand_claim"
    /\ LET claim_res == claim[input_str]
       IN IF claim_res.ok
          THEN Return(Ok(input_str))
          ELSE Return(RejectionError(claim_res.err))
    /\ vcalls' = vcalls + 1
    /\ UNCHANGED <<medium, queue, calls, claim, op, attemptsArg, ncalls,
                   queue0, reads, script, prev>>

\* demand_until: resolve the bound, initialise last_error_msg and the range
demand_until_call(a) ==
    /\ Begin("demand_until", a)
    /\ attempts' = ResolveAttempts(a)
    /\ last_error_msg' = ""
    /\ attempt' = 0
    /\ pc' = "demand_until_for"
    /\ reads' = 0
    /\ vcalls' = 0
    /\ UNCHANGED <<medium, queue, calls, claim, input_str, result, script, prev>>

\* demand_until: the range 0..attempts is exhausted, the loop falls through
demand_until_exhausted ==
    /\ pc = "demand_until_for"
    /\ ~RangeHasNext(attempt, attempts)
    /\ Return(Err("AttemptsExceedError", AttemptsMsg(last_error_msg)))
    /\ UNCHANGED <<medium, queue, calls, claim, op, attemptsArg, ncalls,
                   queue0, reads, vcalls, script, prev>>

\* demand_until: the range yields attempt; let input_str = self.read()?;
demand_until_read ==
    /\ pc = "demand_until_for"
    /\ RangeHasNext(attempt, attempts)
    /\ LET r == read(medium, queue)
       IN /\ queue' = r.rest
          /\ calls' = calls + 1
          /\ reads' = reads + 1
          /\ IF r.panic THEN Panic
             ELSE IF r.res.tag = "Err"
                  THEN Return(r.res)
                  ELSE /\ input_str' = r.res.val
                       /\ pc' = "demand_until_claim"
                       /\ UNCHANGED <<result, attempts, attempt, last_error_msg>>
    /\ UNCHANGED <<medium, claim, op, attemptsArg, ncalls, queue0, vcalls,
                   script, prev>>

\* demand_until: validate input_str; return it, or note the last reason
demand_until_claim ==
    /\ pc = "demand_until_claim"
    /\ LET claim_res == claim[input_str]
       IN IF is_ok(claim_res)
          THEN Return(Ok(input_str))
          ELSE \/ /\ SubOverflows(attempts, 1)
                  /\ Panic
               \/ /\ IsLastAttempt(attempt, attempts)
                  /\ LET reason == err_unwrap(claim_res)
                     IN IF reason.panic THEN Panic
                        ELSE /\ last_error_msg' = reason.val
                             /\ attempt' = Add8(attempt, 1)
                             /\ pc' = "demand_until_for"
                             /\ UNCHANGED <<result, attempts, input_str>>
               \/ /\ ~IsLastAttempt(attempt, attempts)
                  /\ attempt' = Add8(attempt, 1)
                  /\ pc' = "demand_until_for"
                  /\ UNCHANGED <<result, attempts, input_str, last_error_msg>>
    /\ vcalls' = vcalls + 1
    /\ UNCHANGED <<medium, queue, calls, claim, op, attemptsArg, ncalls,
                   queue0, reads, script, prev>>

\* a caller builds a second Input over a reader pre-loaded like the first,
\* as each test does, after one operation on the first has returned
Input_new ==
    /\ pc = "idle"
    /\ ncalls = 1
    /\ prev = NoPrev
    /\ prev' = [op |-> op, arg |-> attemptsArg, result |-> result,
                reads |-> reads, vcalls |-> vcalls, rest |-> queue]
    /\ queue' = script
    /\ queue0' = script
    /\ calls' = 0
    /\ ncalls' = 0
    /\ op' = "none"
    /\ attemptsArg' = None
    /\ result' = NoResult
    /\ reads' = 0
    /\ vcalls' = 0
    /\ UNCHANGED <<medium, claim, script, pc, attempts, attempt,
                   last_error_msg, input_str>>

\* ------------------------------------------------------------ properties

\* the reader's pending items after i invocations of read_string on q
RECURSIVE RestAfter(_, _, _)
RestAfter(m, q, i) ==
    IF i = 0 THEN q ELSE RestAfter(m, read_string(m, q).rest, i - 1)

\* what the i-th read_string of the current operation produces
NthRead(i) == read_string(medium, RestAfter(medium, queue0, i - 1))
YieldsLine(i) == ~NthRead(i).panic /\ NthRead(i).res.tag = "Ok"
NthLine(i) == NthRead(i).res.val
FailsAt(i) == ~NthRead(i).panic /\ NthRead(i).res.tag = "IoErr"
Accepted(i) == YieldsLine(i) /\ claim[NthLine(i)].ok
Rejected(i) == YieldsLine(i) /\ ~claim[NthLine(i)].ok
ReasonAt(i) == claim[NthLine(i)].err

Returned(o) == pc = "idle" /\ op = o
ExplicitBound == attemptsArg.some /\ attemptsArg.val >= 1

\* C1: demand_until(V, max) with max >= 1, lines R1..R(k-1) rejected and Rk
\* accepted (k <= max) returns Ok(Rk) after exactly k reader invocations and
\* leaves what is queued after Rk in the reader.
C1_EarlyExit ==
    (Returned("demand_until") /\ ExplicitBound) =>
        \A k \in 1..attemptsArg.val :
            ((\A j \in 1..(k - 1) : Rejected(j)) /\ Accepted(k)) =>
                /\ result = Ok(NthLine(k))
                /\ reads = k
                /\ queue = RestAfter(medium, queue0, k)

C1_Witness ==
    /\ Returned("demand_until") /\ ExplicitBound
    /\ attemptsArg.val = 3
    /\ Rejected(1) /\ Accepted(2)
    /\ result.tag = "Ok" /\ reads = 2
    /\ Len(queue) = 1

\* C2: demand_until(V, max) with max >= 1 over max consecutive rejected lines
\* returns an error of kind AttemptsExceedError after exactly max reader
\* invocations.
C2_Exhaustion ==
    (/\ Returned("demand_until") /\ ExplicitBound
     /\ \A j \in 1..attemptsArg.val : Rejected(j)) =>
        /\ result.tag = "Err"
        /\ result.kind = "AttemptsExceedError"
        /\ reads = attemptsArg.val

C2_Witness ==
    /\ Returned("demand_until") /\ ExplicitBound
    /\ attemptsArg.val = 3
    /\ \A j \in 1..3 : Rejected(j)
    /\ result.tag = "Err" /\ reads = 3

\* C3: when attempts 1..i-1 are rejected and the reader fails on attempt i
\* (i <= max), demand_until returns the IoError at once: i reader invocations,
\* i-1 validator invocations, nothing after the failure.
C3_IoShortCircuit ==
    (Returned("demand_until") /\ ExplicitBound) =>
        \A i \in 1..attemptsArg.val :
            ((\A j \in 1..(i - 1) : Rejected(j)) /\ FailsAt(i)) =>
                /\ result = Err("IoError", NthRead(i).res.desc)
                /\ reads = i
                /\ vcalls = i - 1
                /\ queue = RestAfter(medium, queue0, i)

C3_Witness ==
    /\ Returned("demand_until") /\ ExplicitBound
    /\ attemptsArg.val = 3
    /\ Rejected(1) /\ FailsAt(2)
    /\ result.tag = "Err" /\ reads = 2 /\ vcalls = 1
    /\ Len(queue) = 1

\* C4: after max >= 1 rejected attempts the message of the AttemptsExceedError
\* is "attempts to read input were failed. " followed by the reason of the
\* last attempt alone.
C4_LastReasonOnly ==
    (/\ Returned("demand_until") /\ ExplicitBound
     /\ \A j \in 1..attemptsArg.val : Rejected(j)) =>
        /\ result.tag = "Err"
        /\ result.msg = "attempts to read input were failed. "
                            \o ReasonAt(attemptsArg.val)

C4_Witness ==
    /\ Returned("demand_until") /\ ExplicitBound
    /\ attemptsArg.val = 3
    /\ \A j \in 1..3 : Rejected(j)
    /\ ReasonAt(1) # ReasonAt(3) /\ ReasonAt(2) # ReasonAt(3)
    /\ result.tag = "Err" /\ result.kind = "AttemptsExceedError"

\* C5: demand(V) over a line L returns Ok(L) when V accepts L and otherwise an
\* InputRequirementError with message "wrong input. " + V's reason; the reader
\* and V are each invoked exactly once.
C5_SingleValidation ==
    (Returned("demand") /\ YieldsLine(1)) =>
        /\ Accepted(1) => result = Ok(NthLine(1))
        /\ Rejected(1) => result = Err("InputRequirementError",
                                       "wrong input. " \o ReasonAt(1))
        /\ reads = 1
        /\ vcalls = 1
        /\ queue = RestAfter(medium, queue0, 1)

C5_Witness ==
    /\ Returned("demand") /\ Rejected(1)
    /\ result.tag = "Err" /\ result.kind = "InputRequirementError"
    /\ reads = 1 /\ vcalls = 1


C7_DefaultIsThree ==
    (/\ prev.op = "demand_until" /\ op = "demand_until"
     /\ pc \in {"idle", "panicked"}
     /\ \/ prev.arg = None /\ attemptsArg = Some(3)
        \/ prev.arg = Some(3) /\ attemptsArg = None) =>
        /\ pc = "idle"
        /\ result = prev.result
        /\ reads = prev.reads
        /\ vcalls = prev.vcalls
        /\ queue = prev.rest

C7_Witness ==
    /\ prev.op = "demand_until" /\ prev.arg = None
    /\ Returned("demand_until") /\ attemptsArg = Some(3)
    /\ result.tag = "Err" /\ result.kind = "AttemptsExceedError"
    /\ reads = 3 /\ prev.reads = 3

\* C8: read() returns the reader's next line unchanged, validates nothing and
\* takes exactly one unit from the reader; a failing reader gives an IoError
\* carrying the underlying message.
C8_PassThrough ==
    Returned("read") =>
        /\ reads = 1
        /\ vcalls = 0
        /\ queue = RestAfter(medium, queue0, 1)
        /\ YieldsLine(1) => result = Ok(NthLine(1))
        /\ (medium = "mock" \/ (queue0 # <<>> /\ Head(queue0).tag = "line"))
              => (result = Ok(Head(queue0).text) /\ queue = Tail(queue0))
        /\ FailsAt(1) => result = Err("IoError", Head(queue0).desc)

C8_Witness ==
    /\ Returned("read") /\ YieldsLine(1)
    /\ result = Ok(Head(queue0).text)
    /\ Len(queue0) = 2 /\ Len(queue) = 1

\* C9: when the single read of demand(V) fails, demand returns an IoError
\* whose message is the underlying error's message, and V is not invoked.
C9_DemandPropagatesIo ==
    (Returned("demand") /\ FailsAt(1)) =>
        /\ result = Err("IoError", Head(queue0).desc)
        /\ vcalls = 0
        /\ reads = 1

C9_Witness ==
    /\ Returned("demand") /\ FailsAt(1)
    /\ result.tag = "Err" /\ result.kind = "IoError"
    /\ vcalls = 0

\* the lifecycle state of the demand_until call in progress or just returned
Attempting(n) == [st |-> "Attempting", n |-> n]
Done(line) == [st |-> "Done", line |-> line]
Exhausted(msg) == [st |-> "Exhausted", msg |-> msg]
Failed(msg) == [st |-> "Failed", msg |-> msg]
Outside == [st |-> "Outside"]
Phase ==
    IF op # "demand_until" THEN Outside
    ELSE IF pc = "demand_until_claim" THEN Attempting(attempt + 1)
    ELSE IF pc = "demand_until_for"
         THEN IF attempt < attempts THEN Attempting(attempt + 1)
              ELSE Exhausted("attempts to read input were failed. "
                                 \o last_error_msg)
    ELSE IF pc = "idle"
         THEN IF result.tag = "Ok" THEN Done(result.val)
              ELSE IF result.kind = "IoError" THEN Failed(result.msg)
              ELSE Exhausted(result.msg)
    ELSE Outside

InAttempt == Phase.st = "Attempting"
Terminal == pc = "idle" /\ Phase.st \in {"Done", "Exhausted", "Failed"}

C10_Step ==
    /\ (pc = "idle" /\ pc' = "demand_until_for" /\ attempts' >= 1) =>
          Phase' = Attempting(1)
    /\ InAttempt =>
          LET n == Phase.n
          IN \/ pc = "demand_until_for" /\ pc' = "demand_until_claim"
                /\ YieldsLine(n) /\ input_str' = NthLine(n) /\ Phase' = Phase
             \/ pc = "demand_until_for" /\ pc' = "panicked" /\ NthRead(n).panic
             \/ pc = "demand_until_for" /\ FailsAt(n)
                /\ Phase' = Failed(NthRead(n).res.desc)
             \/ pc = "demand_until_claim" /\ Accepted(n)
                /\ Phase' = Done(NthLine(n))
             \/ pc = "demand_until_claim" /\ Rejected(n) /\ n < attempts
                /\ Phase' = Attempting(n + 1)
             \/ pc = "demand_until_claim" /\ Rejected(n) /\ n = attempts
                /\ Phase' = Exhausted("attempts to read input were failed. "
                                          \o ReasonAt(n))
    /\ (Phase.st = "Exhausted" /\ pc # "idle" /\ attempts >= 1) =>
          (Phase' = Phase /\ pc' = "idle" /\ reads' = reads /\ vcalls' = vcalls)
    /\ Terminal =>
          (ncalls' = ncalls + 1 /\ queue0' = queue)

\* C10: a demand_until call with max >= 1 starts in Attempting(1), moves
\* Attempting(n) -> Done(line) on accept, -> Attempting(n+1) on reject with
\* n < max, -> Exhausted(last reason) on reject with n = max, -> Failed(error)
\* on I/O failure, takes no step once terminal, and, every read returning,
\* reaches a terminal state.
C10_StateMachine ==
    /\ [][C10_Step]_vars
    /\ InAttempt ~> (Terminal \/ pc = "panicked")

C10_Witness ==
    /\ Terminal /\ Phase.st = "Exhausted"
    /\ attemptsArg = Some(3) /\ reads = 3 /\ vcalls = 3
    /\ ReasonAt(2) # ReasonAt(3)

\* the attempt bound of the demand_until call, given or defaulted
Bound == IF attemptsArg.some THEN attemptsArg.val ELSE 3
InUntil == op = "demand_until" /\ pc # "panicked"
\* attempts started so far by the demand_until call
AttemptsMade == IF pc = "demand_until_claim" THEN attempt + 1
                ELSE IF pc = "demand_until_for" THEN attempt
                ELSE IF result.tag = "Err" /\ result.kind = "IoError"
                     THEN vcalls + 1
                     ELSE vcalls

\* C11 as stated: every demand_until call, whatever its bound, consumes at
\* least 1 and at most max_attempts units, one per attempt made.
C11_ConsumptionAnyBound ==
    /\ op = "demand_until" => reads <= Bound
    /\ InUntil => reads = AttemptsMade
    /\ Returned("demand_until") => reads >= 1

\* C11 amended: a demand_until call whose bound, given or defaulted, is at
\* least 1 consumes between 1 and max_attempts units, one per attempt made,
\* and never has more than max_attempts reader invocations; with a bound of 0
\* it consumes none.
C11_ConsumptionBound ==
    /\ op = "demand_until" => reads <= Bound
    /\ InUntil => reads = AttemptsMade
    /\ (Returned("demand_until") /\ Bound >= 1) => reads >= 1
    /\ (Returned("demand_until") /\ Bound = 0) => reads = 0

C11_Witness ==
    /\ Returned("demand_until") /\ attemptsArg = None
    /\ reads = 3 /\ vcalls = 3
    /\ result.tag = "Err"

\* the panic came out of the mock reader, drawn with its queue empty
ReaderPanicked == medium = "mock" /\ reads >= 1 /\ NthRead(reads).panic
ErrorKinds == {"IoError", "AttemptsExceedError", "InputRequirementError"}

\* C12: whatever the reader gives (a line or an I/O error) and whatever the
\* validator answers, read, demand and demand_until hand Ok(line) or
\* Err(InputReadError) back; the operations never panic, and the unwrap of the
\* rejection reason runs on a rejection only.
C12_ErrorsAreValues ==
    /\ pc = "panicked" => ReaderPanicked
    /\ (pc = "idle" /\ op # "none") =>
          \/ result.tag = "Ok" /\ result.val \in LineDomain
          \/ result.tag = "Err" /\ result.kind \in ErrorKinds
    /\ (pc = "demand_until_for" /\ attempt >= 1) =>
          /\ Rejected(reads)
          /\ last_error_msg \in {"", ReasonAt(reads)}
          /\ attempt = attempts => last_error_msg = ReasonAt(reads)

C12_Witness ==
    /\ medium = "stdin" /\ pc = "demand_until_for"
    /\ attempt = attempts /\ attempts = 2
    /\ FailsAt(1) = FALSE /\ Rejected(2)
    /\ last_error_msg = ReasonAt(2)

\* C13: read fails with IoError only; demand fails with IoError or
\* InputRequirementError, never AttemptsExceedError; demand_until fails with
\* IoError or AttemptsExceedError, never InputRequirementError, also with a
\* bound of 1.
C13_KindPerOperation ==
    (pc = "idle" /\ result.tag = "Err") =>
        /\ op = "read" => result.kind = "IoError"
        /\ op = "demand" => result.kind \in {"IoError", "InputRequirementError"}
        /\ op = "demand_until" =>
              result.kind \in {"IoError", "AttemptsExceedError"}
        /\ result.kind = "IoError" => (reads >= 1 /\ FailsAt(reads))
        /\ result.kind # "IoError" => (reads = 0 \/ Rejected(reads))

C13_Witness ==
    /\ Returned("demand_until") /\ attemptsArg = Some(1)
    /\ Rejected(1) /\ reads = 1
    /\ result.tag = "Err" /\ result.kind = "AttemptsExceedError"

\* items of the script taken after n reader invocations
Taken(n) == IF n < Len(script) THEN n ELSE Len(script)
ScriptFrom(n) == SubSeq(script, Taken(n) + 1, Len(script))

C14_Order ==
    /\ queue = ScriptFrom(calls)
    /\ reads <= calls
    /\ queue0 = ScriptFrom(calls - reads)
    /\ (pc \in {"demand_claim", "demand_until_claim"} /\ calls <= Len(script))
          => input_str = script[calls].text
    /\ (pc = "idle" /\ result.tag = "Ok" /\ calls <= Len(script))
          => result.val = script[calls].text

C14_Step ==
    /\ calls' - calls \in {0, 1}
    /\ calls' - calls = (IF ncalls' = ncalls THEN reads' - reads ELSE reads')
    /\ calls' = calls => queue' = queue
    /\ (calls' = calls + 1 /\ queue # <<>>) =>
          (queue' = Tail(queue) /\ Head(queue) = script[calls'])

\* C14: across any sequence of read, demand and demand_until calls on one
\* Input the queued lines are taken strictly in order, none skipped or taken
\* twice; each call's first read gets the line after the last one taken, and
\* the reader's invocation count is the total of the reads of all calls.
C14_NoReadAhead == []C14_Order /\ [][C14_Step]_vars

C14_Witness ==
    /\ medium = "mock" /\ Len(script) = 3 /\ script[2] # script[3]
    /\ ncalls = 2 /\ op = "demand" /\ pc = "demand_claim"
    /\ calls = 3 /\ reads = 1
    /\ ~claim[script[1].text].ok
    /\ result = Ok(script[2].text)
    /\ input_str = script[3].text

\* C15: demand_until(V, Some(0)) invokes neither the reader nor the validator,
\* never panics, never returns Ok, and returns the AttemptsExceedError with
\* message "attempts to read input were failed. " and an empty reason; the
\* reader's queue and invocation count stay as they were.
C15_ZeroAttempts ==
    (op = "demand_until" /\ attemptsArg = Some(0)) =>
        /\ pc \in {"demand_until_for", "idle"}
        /\ reads = 0
        /\ vcalls = 0
        /\ queue = queue0
        /\ queue = ScriptFrom(calls)
        /\ pc = "idle" =>
              result = Err("AttemptsExceedError",
                           "attempts to read input were failed. ")

C15_Witness ==
    /\ Returned("demand_until") /\ attemptsArg = Some(0)
    /\ ncalls = 1 /\ calls = 0 /\ Len(queue) = 3
    /\ result.tag = "Err" /\ result.kind = "AttemptsExceedError"

\* reads of the current operation that produced a line
SuccReads == Cardinality({j \in 1..reads : YieldsLine(j)})
Awaiting == pc \in {"demand_claim", "demand_until_claim"}

C16_Counts ==
    op \in {"demand", "demand_until"} =>
        /\ vcalls = SuccReads - (IF Awaiting THEN 1 ELSE 0)
        /\ \A j \in 1..(vcalls - 1) : Rejected(j)
        /\ \A j \in 1..(reads - 1) : YieldsLine(j)
        /\ Awaiting => (YieldsLine(reads) /\ input_str = NthLine(reads))

C16_Step ==
    vcalls' # vcalls =>
        \/ ncalls' = ncalls + 1 /\ vcalls' = 0
        \/ /\ Awaiting
           /\ vcalls' = vcalls + 1
           /\ vcalls' = reads
           /\ reads' = reads
           /\ IF pc' = "idle" /\ result'.tag = "Ok"
              THEN Accepted(reads) /\ result'.val = input_str
              ELSE Rejected(reads)

\* C16: in demand and demand_until the validator is invoked exactly once on
\* each line read, on that line and in reading order, never after it accepted
\* a line or after the reader failed; its invocation count is the number of
\* successful reads, or one less while the line just read awaits validation.
C16_OneValidationPerLine == []C16_Counts /\ [][C16_Step]_vars

C16_Witness ==
    /\ op = "demand_until" /\ pc = "demand_until_claim"
    /\ reads = 3 /\ vcalls = 2
    /\ Rejected(1) /\ Rejected(2) /\ input_str = NthLine(3)

\* the results of demand_until(V, Some(1)) and demand(V) agree
Agree(until_res, demand_res) ==
    \/ until_res.tag = "Ok" /\ demand_res = until_res
    \/ /\ until_res.tag = "Err" /\ demand_res.tag = "Err"
       /\ until_res.kind = "IoError" /\ demand_res = until_res
    \/ /\ until_res.tag = "Err" /\ demand_res.tag = "Err"
       /\ until_res.kind = "AttemptsExceedError"
       /\ demand_res.kind = "InputRequirementError"
       /\ \E r \in Reasons :
             /\ until_res.msg = "attempts to read input were failed. " \o r
             /\ demand_res.msg = "wrong input. " \o r

\* C17: on identically loaded readers demand_until(V, Some(1)) and demand(V)
\* both take exactly one unit, return the same Ok line when V accepts, the
\* same IoError when the reader fails, and on a rejection carry the same
\* reason, differing in kind and message prefix only.
C17_BoundOneIsDemand ==
    /\ (/\ prev.op = "demand" /\ op = "demand_until" /\ attemptsArg = Some(1)
        /\ pc \in {"idle", "panicked"}) =>
           /\ pc = "idle"
           /\ reads = 1 /\ prev.reads = 1
           /\ vcalls = prev.vcalls
           /\ queue = prev.rest
           /\ Agree(result, prev.result)
    /\ (/\ prev.op = "demand_until" /\ prev.arg = Some(1) /\ op = "demand"
        /\ pc \in {"idle", "panicked"}) =>
           /\ pc = "idle"
           /\ reads = 1 /\ prev.reads = 1
           /\ vcalls = prev.vcalls
           /\ queue = prev.rest
           /\ Agree(prev.result, result)

C17_Witness ==
    /\ prev.op = "demand" /\ Returned("demand_until") /\ attemptsArg = Some(1)
    /\ Rejected(1)
    /\ result.tag = "Err" /\ result.kind = "AttemptsExceedError"
    /\ prev.result.kind = "InputRequirementError"

C18_Range ==
    /\ attempts \in 0..(U8 - 1)
    /\ attempt \in 0..(U8 - 1)
    /\ pc = "demand_until_for" =>
          /\ attempt <= attempts
          /\ attempt < attempts => last_error_msg = ""
    /\ pc = "demand_until_claim" =>
          /\ attempts >= 1
          /\ ~SubOverflows(attempts, 1)
          /\ attempt <= attempts - 1
          /\ attempt <= U8 - 2
          /\ IsLastAttempt(attempt, attempts) <=> (attempt + 1 = attempts)

C18_Step ==
    (pc = "demand_until_claim" /\ pc' = "demand_until_for") =>
        /\ attempt' = attempt + 1
        /\ (last_error_msg' # last_error_msg) <=> (attempt' = attempts)

\* C18: for every attempt bound in 0..255 the subtraction attempts - 1 is
\* evaluated only with attempts >= 1 and never underflows, the loop counter
\* stays within 0..attempts-1 and never exceeds 254, and the last-attempt test
\* holds on the final iteration alone, also for attempts = 255.
C18_NoWrap == []C18_Range /\ [][C18_Step]_vars

C18_Witness ==
    /\ pc = "demand_until_claim"
    /\ attempts = 255 /\ attempt = 254
    /\ reads = 255 /\ vcalls = 254

Next ==
    \/ ReadCall
    \/ demand_read
    \/ demand_claim
    \/ \E a \in AttemptArgs : demand_until_call(a)
    \/ demand_until_exhausted
    \/ demand_until_read
    \/ demand_until_claim

Spec == Init /\ [][Next]_vars

\* the same operations, compared across two identically loaded Inputs
NextPair ==
    \/ Next
    \/ Input_new

PairSpec == Init /\ [][NextPair]_vars

\* a call in progress runs on: the code is sequential and each blocking read
\* returns (or panics)
CallSteps ==
    \/ demand_claim
    \/ demand_until_exhausted
    \/ demand_until_read
    \/ demand_until_claim

\* one demand_until call on a fresh Input, over every bound a u8 can hold
U8Bounds == 0..(U8 - 1)

InitU8 == Init /\ Len(script) <= 1

demand_until_once(n) ==
    /\ ncalls = 0
    /\ demand_until_call(Some(n))

NextU8 ==
    \/ \E n \in U8Bounds : demand_until_once(n)
    \/ demand_until_exhausted
    \/ demand_until_read
    \/ demand_until_claim

U8Spec == InitU8 /\ [][NextU8]_vars

FairSpec == Init /\ [][Next]_vars /\ WF_vars(CallSteps)

=============================================================================
